---------------------------- MODULE Spec2Model ----------------------------
(***************************************************************************)
(* URL shortening service (app/main.py, app/url_service.py,               *)
(* app/storage.py, app/utils.py, app/models.py).                          *)
(*                                                                         *)
(* Strings are strings; the character at position i of s is               *)
(* SubSeq(s, i, i) and concatenation is \o.                               *)
(*                                                                         *)
(* Concurrency: every request is a coroutine (a task).  Tasks interleave   *)
(* at the awaits of the code: the `async with self._lock` of a store      *)
(* operation (acquisition, then the block with the release) and the       *)
(* `await self.storage...` calls of the service.  The lock is a mutex:    *)
(* it is taken only when free.  Whether a given event loop suspends a     *)
(* coroutine at an await that could go on is not fixed by the code, so    *)
(* every such interleaving is a behaviour here; so are the schedules of   *)
(* callers on several threads, which storage.py calls safe.               *)
(*                                                                         *)
(* History variables (returned, call[t].start_free, call[t].start_same,    *)
(* call[t].expected) record what happened for the properties and are read *)
(* by no action's guard; they are kept only where track is TRUE.          *)
(***************************************************************************)
EXTENDS Integers, Sequences, FiniteSets, Bags, TLC

(***************************************************************************)
(* Bounds of the model.                                                    *)
(***************************************************************************)
\* number of concurrent request tasks
NumTasks == 2
\* number of distinct digest prefixes sha256 may produce in the service runs
NumDigests == 2
\* largest `length` argument given to generate_short_id on its own
MaxLength == 12

(***************************************************************************)
(* app/utils.py : generate_short_id                                        *)
(***************************************************************************)
\* string.ascii_letters + string.digits
base62_chars ==
  << "a","b","c","d","e","f","g","h","i","j","k","l","m",
     "n","o","p","q","r","s","t","u","v","w","x","y","z",
     "A","B","C","D","E","F","G","H","I","J","K","L","M",
     "N","O","P","Q","R","S","T","U","V","W","X","Y","Z",
     "0","1","2","3","4","5","6","7","8","9" >>

\* Python's slice s[m-1:n]: positions m..n (1-based), clamped to the string
Slice(s, m, n) ==
  LET lo == IF m < 1 THEN 1 ELSE m
      hi == IF n > Len(s) THEN Len(s) ELSE n
  IN  IF lo > hi THEN "" ELSE SubSeq(s, lo, hi)

\* the characters of a hexdigest
HexChars ==
  << "0","1","2","3","4","5","6","7","8","9","a","b","c","d","e","f" >>

\* the value int(c, 16) of one hex character
HexVal(c) == (CHOOSE i \in 1..16 : HexChars[i] = c) - 1

\* hash_digest[:16] : the first 16 characters of the hexdigest
Prefix16(hash_digest) == Slice(hash_digest, 1, 16)

\* int(s, 16): an unbounded integer, kept as its base-16 digits, most
\* significant first (a 64-bit value does not fit the checker's integers)
IntOfHex(s) == [i \in 1..Len(s) |-> HexVal(Slice(s, i, i))]

\* divmod(hash_int, 62) by long division over the base-16 digits
divmod62(hash_int) ==
  LET n == Len(hash_int)
      rem[i \in 0..n] ==
        IF i = 0 THEN 0 ELSE (rem[i-1] * 16 + hash_int[i]) % 62
  IN  [quot |-> [i \in 1..n |-> (rem[i-1] * 16 + hash_int[i]) \div 62],
       remainder |-> rem[n]]

\* (mutant) the character is put in front: result.insert(0, ...)
GenLoopBodyPrepend(g) ==
  LET dm == divmod62(g.hash_int)
  IN  [g EXCEPT !.hash_int = dm.quot,
                !.result = base62_chars[dm.remainder + 1] \o g.result,
                !.i = g.i + 1]

\* one iteration of `for _ in range(length)`: divmod, then append
GenLoopBody(g) ==
  LET dm == divmod62(g.hash_int)
  IN  [g EXCEPT !.hash_int = dm.quot,
                !.result = g.result \o base62_chars[dm.remainder + 1],
                !.i = g.i + 1]

\* (mutant) the loop runs once more: range(length + 1)
GenLoopContinuesInclusive(g) == g.i <= g.length

\* `for _ in range(length)`: whether another iteration follows
GenLoopContinues(g) == g.i < g.length

\* the loop of generate_short_id run to its end from the locals g
RECURSIVE GenLoopRun(_)
GenLoopRun(g) ==
  IF GenLoopContinues(g) THEN GenLoopRun(GenLoopBody(g)) ELSE g

\* the locals of generate_short_id on entry to the loop
GenLocals(hash_digest, length) ==
  [hash_int |-> IntOfHex(Prefix16(hash_digest)), result |-> "",
   i |-> 0, length |-> length]

\* generate_short_id(url, length), given the hexdigest of url + token_hex(8)
generate_short_id(hash_digest, length) ==
  GenLoopRun(GenLocals(hash_digest, length)).result

\* the default of the parameter `length`
DefaultLength == 6

(***************************************************************************)
(* Digests.  sha256 of url + secrets.token_hex(8) is not computed: every   *)
(* call draws its digest prefix from a set.                                *)
(***************************************************************************)
\* the hexdigest (cut after 20 characters) whose first 16 characters have
\* the value k, for 0 <= k < 16
DigestOfInt(k) == "000000000000000" \o HexChars[k + 1] \o "c0de"

\* the digests drawn by generate_short_id inside create_short_url
Digests == { DigestOfInt(k) : k \in 0..(NumDigests - 1) }

\* generate_short_id(url) over Digests, computed once
GeneratedId == [d \in Digests |-> generate_short_id(d, DefaultLength)]

\* the short ids create_short_url can produce from those digests
Ids == { GeneratedId[d] : d \in Digests }

\* digests given to generate_short_id on its own
GenDigests ==
  Digests \cup
  { "0000000000000000", "ffffffffffffffffffff", "000000000000003e",
    "000000018f2175f7", "8000000000000000", "0123456789abcdef0123",
    "0000000012345678" }

(***************************************************************************)
(* app/utils.py : validate_url (urllib.parse.urlparse, as far as its       *)
(* scheme and netloc go)                                                   *)
(***************************************************************************)
\* the character of s at position i (1-based)
CharAt(s, i) == Slice(s, i, i)

\* the characters of s, as a set
CharsOf(s) == { CharAt(s, i) : i \in 1..Len(s) }

\* string.ascii_letters
AsciiLetters == { base62_chars[i] : i \in 1..52 }

\* the characters urlsplit allows in a scheme
SchemeChars == { base62_chars[i] : i \in 1..62 } \cup { "+", "-", "." }

\* str.lower() of one character
LowerChar(c) ==
  IF \E i \in 27..52 : base62_chars[i] = c
  THEN base62_chars[(CHOOSE i \in 27..52 : base62_chars[i] = c) - 26]
  ELSE c

\* str.lower()
RECURSIVE Lower(_)
Lower(s) ==
  IF Len(s) = 0 THEN "" ELSE LowerChar(CharAt(s, 1)) \o Lower(Slice(s, 2, Len(s)))

\* s.find(c), 1-based; 0 when c is not in s
Find(s, c) ==
  IF c \in CharsOf(s) THEN CHOOSE i \in 1..Len(s) :
                              /\ CharAt(s, i) = c
                              /\ \A j \in 1..(i-1) : CharAt(s, j) # c
  ELSE 0

\* urlparse(url): the scheme, the netloc, and whether ValueError is raised
urlparse(url) ==
  LET i == Find(url, ":")
      hasScheme == /\ i > 1
                   /\ CharAt(url, 1) \in AsciiLetters
                   /\ \A j \in 1..(i-1) : CharAt(url, j) \in SchemeChars
      scheme == IF hasScheme THEN Lower(Slice(url, 1, i - 1)) ELSE ""
      rest == IF hasScheme THEN Slice(url, i + 1, Len(url)) ELSE url
      hasNetloc == Slice(rest, 1, 2) = "//"
      delims == { j \in 3..Len(rest) : CharAt(rest, j) \in {"/", "?", "#"} }
      delim == IF delims = {} THEN Len(rest) + 1
               ELSE CHOOSE j \in delims : \A k \in delims : j <= k
      netloc == IF hasNetloc THEN Slice(rest, 3, delim - 1) ELSE ""
  IN  [scheme |-> scheme, netloc |-> netloc,
       error |-> ("[" \in CharsOf(netloc)) # ("]" \in CharsOf(netloc))]

\* ParseResult.hostname: the netloc without userinfo and port, or "" (None)
hostname(netloc) ==
  LET ats == { j \in 1..Len(netloc) : CharAt(netloc, j) = "@" }
      lastAt == IF ats = {} THEN 0 ELSE CHOOSE j \in ats : \A k \in ats : k <= j
      hostport == Slice(netloc, lastAt + 1, Len(netloc))
      colon == Find(hostport, ":")
  IN  Lower(IF colon = 0 THEN hostport ELSE Slice(hostport, 1, colon - 1))

\* validate_url(url)
validate_url(url) ==
  LET parsed == urlparse(url)
  IN  IF parsed.error THEN FALSE
      ELSE /\ parsed.scheme \in {"http", "https"}
           /\ parsed.netloc # ""
           /\ Len(url) > 0

\* the url values of the POST bodies of the concurrent requests
Urls == { "https://example.com/a", "http://example.com/b", "", "ftp://example.com" }

\* the url values of the POST bodies of a client that posts one url after
\* the other
UrlSamples ==
  { "not-a-url", "ftp://example.com", "javascript:alert('xss')", "", "example.com",
    "http://", "https:/example.com", "http:///path", "//example.com",
    "https://example.com", "http://example.com/path", "HTTP://Example.com:8080/p?a=1#f",
    "http://:80", "http://user@" }

\* validate_url over these urls, computed once
ValidUrl == [url \in Urls \cup UrlSamples |-> validate_url(url)]

(***************************************************************************)
(* app/main.py : the routes, in the order of their registration            *)
(***************************************************************************)
HTTP_200_OK == 200
HTTP_201_CREATED == 201
HTTP_307_TEMPORARY_REDIRECT == 307
HTTP_404_NOT_FOUND == 404
HTTP_422_UNPROCESSABLE_ENTITY == 422
HTTP_500_INTERNAL_SERVER_ERROR == 500

Routes ==
  << [method |-> "POST", path |-> "/", endpoint |-> "create_short_url"],
     [method |-> "GET", path |-> "/{short_id}", endpoint |-> "redirect_to_url"],
     [method |-> "GET", path |-> "/health", endpoint |-> "health_check"] >>

\* the value of the path parameter when `pattern` matches `path`, else ""
\* (a parameter matches one non-empty segment without "/")
PathParam(pattern, path) ==
  LET brace == Find(pattern, "{")
      param == Slice(path, brace, Len(path))
  IN  IF /\ brace > 0
         /\ Slice(path, 1, brace - 1) = Slice(pattern, 1, brace - 1)
         /\ "/" \notin CharsOf(param)
      THEN param ELSE ""

\* whether a route matches a request
RouteMatches(route, method, path) ==
  /\ route.method = method
  /\ IF Find(route.path, "{") > 0 THEN PathParam(route.path, path) # ""
     ELSE route.path = path

\* the index of the route that serves the request: the first that matches,
\* in the order of registration; 0 when none does
Dispatch(method, path) ==
  LET matching == { i \in 1..Len(Routes) : RouteMatches(Routes[i], method, path) }
  IN  IF matching = {} THEN 0
      ELSE CHOOSE i \in matching : \A j \in matching : i <= j

\* the paths of the GET requests
Paths == { "/" \o id : id \in Ids } \cup { "/health", "/nonexistent123" }

\* the router over the requests of the model, computed once
RouteOfGet == [path \in Paths |-> Dispatch("GET", path)]
RouteOfPost == Dispatch("POST", "/")

(***************************************************************************)
(* app/storage.py : InMemoryURLStorage.  The dict is a function; None is   *)
(* an Optional without a value.                                            *)
(***************************************************************************)
None == [some |-> FALSE, str |-> ""]
Some(v) == [some |-> TRUE, str |-> v]

\* (mutant) the table is replaced: self._storage = {short_id: original_url}
saveReplacing(s, short_id, original_url) == [k \in {short_id} |-> original_url]

\* the body of save: self._storage[short_id] = original_url
save(s, short_id, original_url) ==
  [k \in DOMAIN s \cup {short_id} |-> IF k = short_id THEN original_url ELSE s[k]]

\* (mutant) a default other than None: self._storage.get(short_id, "")
getDefaultEmpty(s, short_id) == IF short_id \in DOMAIN s THEN Some(s[short_id]) ELSE Some("")

\* the body of get: self._storage.get(short_id)
get(s, short_id) == IF short_id \in DOMAIN s THEN Some(s[short_id]) ELSE None

\* (mutant) the membership test looks among the targets: short_id in
\* self._storage.values()
existsAmongValues(s, short_id) == \E k \in DOMAIN s : s[k] = short_id

\* the body of exists: short_id in self._storage
exists(s, short_id) == short_id \in DOMAIN s

(***************************************************************************)
(* app/url_service.py : URLShortenerService                                *)
(***************************************************************************)
\* the default of max_retries, which app/main.py uses
max_retries == 5

\* (mutant) one attempt more: range(self.max_retries + 1)
HasAttemptInclusive(attempt) == attempt <= max_retries

\* `for attempt in range(self.max_retries)`: whether another attempt follows
HasAttempt(attempt) == attempt < max_retries

(***************************************************************************)
(* State                                                                   *)
(***************************************************************************)
Tasks == 1..NumTasks

\* the value of `lock` when no task holds self._lock
NoTask == 0

NoRequest == [method |-> "", arg |-> ""]
NoResponse == [status |-> 0, body |-> ""]
NoResult == [kind |-> "none", value |-> None]
NoCall == [generated |-> 0, occupied |-> 0, saves |-> 0, start_free |-> {},
           start_same |-> {}, expected |-> {}]
GenIdle == [pc |-> "idle", digest |-> "", g |-> GenLocals("", 0)]

VARIABLES
  storage,    \* InMemoryURLStorage._storage
  lock,       \* InMemoryURLStorage._lock: the task that holds it, or NoTask
  pc,         \* where each task's coroutine stands
  request,    \* the request each task serves: method and url (POST) or path (GET)
  short_id,   \* the local (create_short_url) or parameter (redirect_to_url) short_id
  attempt,    \* the local `attempt` of create_short_url
  result,     \* what the service call of each task returned or raised
  response,   \* the HTTP response of each task
  returned,   \* history: the bag of <<short_id, url>> that create_short_url returned
  call,       \* history of each task's running call (see NoCall)
  track,      \* whether the histories returned, start_free and expected are kept
  gen         \* generate_short_id run on its own: its position and locals

vars == << storage, lock, pc, request, short_id, attempt, result, response,
           returned, call, track, gen >>

\* the state after `storage = InMemoryURLStorage()` and
\* `url_service = URLShortenerService(storage)`, with no request yet
InitService ==
  /\ storage = << >>
  /\ lock = NoTask
  /\ pc = [t \in Tasks |-> "idle"]
  /\ request = [t \in Tasks |-> NoRequest]
  /\ short_id = [t \in Tasks |-> ""]
  /\ attempt = [t \in Tasks |-> 0]
  /\ result = [t \in Tasks |-> NoResult]
  /\ response = [t \in Tasks |-> NoResponse]
  /\ returned = EmptyBag
  /\ call = [t \in Tasks |-> NoCall]

Init == InitService /\ track = TRUE /\ gen = GenIdle

(***************************************************************************)
(* Requests.  A task is idle, serves one request to its response, and is   *)
(* idle again once the client has the response.                            *)
(***************************************************************************)
Respond(t, status, body) ==
  /\ response' = [response EXCEPT ![t] = [status |-> status, body |-> body]]
  /\ pc' = [pc EXCEPT ![t] = "responded"]

\* POST / with body {"url": url}: URLCreateRequest.validate_url_format, then
\* the endpoint create_short_url up to its call of the service
HttpPost(t, url) ==
  /\ pc[t] = "idle"
  /\ Routes[RouteOfPost].endpoint = "create_short_url"
  /\ request' = [request EXCEPT ![t] = [method |-> "POST", arg |-> url]]
  /\ IF ~ValidUrl[url]
     THEN /\ Respond(t, HTTP_422_UNPROCESSABLE_ENTITY, "Invalid URL format")
          /\ UNCHANGED << attempt, call >>
     ELSE /\ pc' = [pc EXCEPT ![t] = "loop"]
          /\ attempt' = [attempt EXCEPT ![t] = 0]
          /\ call' = [call EXCEPT
                        ![t].start_free = IF track THEN Ids \ DOMAIN storage ELSE {},
                        ![t].start_same =
                          IF track THEN { id \in DOMAIN storage : storage[id] = url }
                          ELSE {}]
          /\ UNCHANGED response
  /\ UNCHANGED << storage, lock, short_id, result, returned, track, gen >>

\* GET path: the router, then redirect_to_url up to its call of the service,
\* or health_check
HttpGet(t, path) ==
  /\ pc[t] = "idle"
  /\ request' = [request EXCEPT ![t] = [method |-> "GET", arg |-> path]]
  /\ LET r == RouteOfGet[path]
         endpoint == IF r = 0 THEN "" ELSE Routes[r].endpoint
         id == IF r = 0 THEN "" ELSE PathParam(Routes[r].path, path)
     IN  IF endpoint = "redirect_to_url"
         THEN /\ pc' = [pc EXCEPT ![t] = "get"]
              /\ short_id' = [short_id EXCEPT ![t] = id]
              /\ call' = [call EXCEPT ![t].expected =
                            { e[2] : e \in { x \in BagToSet(returned) : x[1] = id } }]
              /\ UNCHANGED response
         ELSE /\ IF endpoint = "health_check"
                 THEN Respond(t, HTTP_200_OK, "healthy")
                 ELSE Respond(t, HTTP_404_NOT_FOUND, "Not Found")
              /\ UNCHANGED << short_id, call >>
  /\ UNCHANGED << storage, lock, attempt, result, returned, track, gen >>

\* (mutant) the endpoint swallows the RuntimeError and answers 201 with an
\* empty short_id
LoopHeadSwallows(t) ==
  /\ pc[t] = "loop"
  /\ IF HasAttempt(attempt[t])
     THEN /\ \E d \in Digests :
               LET id == GeneratedId[d]
               IN  /\ short_id' = [short_id EXCEPT ![t] = id]
                   /\ call' = [call EXCEPT ![t].generated = @ + 1]
          /\ pc' = [pc EXCEPT ![t] = "exists"]
          /\ UNCHANGED << result, response >>
     ELSE /\ result' = [result EXCEPT ![t] = [kind |-> "RuntimeError", value |-> None]]
          /\ Respond(t, HTTP_201_CREATED, "")
          /\ UNCHANGED << short_id, call >>
  /\ UNCHANGED << storage, lock, request, attempt, returned, track, gen >>

\* (mutant) the last candidate is written before the raise
LoopHeadSavesLast(t) ==
  /\ pc[t] = "loop"
  /\ IF HasAttempt(attempt[t])
     THEN /\ \E d \in Digests :
               LET id == GeneratedId[d]
               IN  /\ short_id' = [short_id EXCEPT ![t] = id]
                   /\ call' = [call EXCEPT ![t].generated = @ + 1]
          /\ pc' = [pc EXCEPT ![t] = "exists"]
          /\ UNCHANGED << storage, result, response >>
     ELSE /\ storage' = save(storage, short_id[t], request[t].arg)
          /\ result' = [result EXCEPT ![t] = [kind |-> "RuntimeError", value |-> None]]
          /\ Respond(t, HTTP_500_INTERNAL_SERVER_ERROR, "Failed to generate unique short ID")
          /\ UNCHANGED << short_id, call >>
  /\ UNCHANGED << lock, request, attempt, returned, track, gen >>

\* create_short_url: the head of the for loop with generate_short_id, or the
\* raise after the loop, which the endpoint turns into a 500
LoopHead(t) ==
  /\ pc[t] = "loop"
  /\ IF HasAttempt(attempt[t])
     THEN /\ \E d \in Digests :
               LET id == GeneratedId[d]
               IN  /\ short_id' = [short_id EXCEPT ![t] = id]
                   /\ call' = [call EXCEPT ![t].generated = @ + 1]
          /\ pc' = [pc EXCEPT ![t] = "exists"]
          /\ UNCHANGED << result, response >>
     ELSE /\ result' = [result EXCEPT ![t] = [kind |-> "RuntimeError", value |-> None]]
          /\ Respond(t, HTTP_500_INTERNAL_SERVER_ERROR, "Failed to generate unique short ID")
          /\ UNCHANGED << short_id, call >>
  /\ UNCHANGED << storage, lock, request, attempt, returned, track, gen >>

\* (mutant) the block is entered without waiting for the lock to be free
AcquireNoWait(t, from, to) ==
  /\ pc[t] = from
  /\ lock' = t
  /\ pc' = [pc EXCEPT ![t] = to]
  /\ UNCHANGED << storage, request, short_id, attempt, result, response,
                  returned, call, track, gen >>

\* `async with self._lock` of exists, save or get: the lock is taken
Acquire(t, from, to) ==
  /\ pc[t] = from
  /\ lock = NoTask
  /\ lock' = t
  /\ pc' = [pc EXCEPT ![t] = to]
  /\ UNCHANGED << storage, request, short_id, attempt, result, response,
                  returned, call, track, gen >>

ExistsAcquire(t) == Acquire(t, "exists", "exists_locked")
SaveAcquire(t) == Acquire(t, "save", "save_locked")
GetAcquire(t) == Acquire(t, "get", "get_locked")

\* (mutant) exists leaves its block without releasing the lock
ExistsLockedNoRelease(t) ==
  /\ pc[t] = "exists_locked"
  /\ lock = t
  /\ IF ~exists(storage, short_id[t])
     THEN /\ pc' = [pc EXCEPT ![t] = "save"]
          /\ UNCHANGED << attempt, call >>
     ELSE /\ pc' = [pc EXCEPT ![t] = "loop"]
          /\ attempt' = [attempt EXCEPT ![t] = @ + 1]
          /\ call' = [call EXCEPT ![t].occupied = @ + 1]
  /\ UNCHANGED << storage, lock, request, short_id, result, response, returned,
                  track, gen >>

\* (mutant) the result of exists is not tested: save follows in any case
ExistsLockedSavesAnyway(t) ==
  /\ pc[t] = "exists_locked"
  /\ lock = t
  /\ lock' = NoTask
  /\ pc' = [pc EXCEPT ![t] = "save"]
  /\ UNCHANGED << storage, request, short_id, attempt, result, response, returned,
                  call, track, gen >>

\* exists under the lock, the release, and `if not await ...exists(short_id)`
ExistsLocked(t) ==
  /\ pc[t] = "exists_locked"
  /\ lock = t
  /\ lock' = NoTask
  /\ IF ~exists(storage, short_id[t])
     THEN /\ pc' = [pc EXCEPT ![t] = "save"]
          /\ UNCHANGED << attempt, call >>
     ELSE /\ pc' = [pc EXCEPT ![t] = "loop"]
          /\ attempt' = [attempt EXCEPT ![t] = @ + 1]
          /\ call' = [call EXCEPT ![t].occupied = @ + 1]
  /\ UNCHANGED << storage, request, short_id, result, response, returned, track, gen >>

\* (mutant) the arguments of save in the other order:
\* self.storage.save(original_url, short_id)
SaveLockedSwapped(t) ==
  /\ pc[t] = "save_locked"
  /\ lock = t
  /\ lock' = NoTask
  /\ storage' = save(storage, request[t].arg, short_id[t])
  /\ result' = [result EXCEPT ![t] = [kind |-> "returned", value |-> Some(short_id[t])]]
  /\ returned' = IF track
                 THEN returned (+) SetToBag({ << short_id[t], request[t].arg >> })
                 ELSE returned
  /\ call' = [call EXCEPT ![t].saves = @ + 1]
  /\ Respond(t, HTTP_201_CREATED, short_id[t])
  /\ UNCHANGED << request, short_id, attempt, track, gen >>

\* save under the lock, the release, `return short_id`, and the 201
SaveLocked(t) ==
  /\ pc[t] = "save_locked"
  /\ lock = t
  /\ lock' = NoTask
  /\ storage' = save(storage, short_id[t], request[t].arg)
  /\ result' = [result EXCEPT ![t] = [kind |-> "returned", value |-> Some(short_id[t])]]
  /\ returned' = IF track
                 THEN returned (+) SetToBag({ << short_id[t], request[t].arg >> })
                 ELSE returned
  /\ call' = [call EXCEPT ![t].saves = @ + 1]
  /\ Respond(t, HTTP_201_CREATED, short_id[t])
  /\ UNCHANGED << request, short_id, attempt, track, gen >>

\* (mutant) the lookup takes the mapping out: self._storage.pop(short_id, None)
GetLockedPops(t) ==
  /\ pc[t] = "get_locked"
  /\ lock = t
  /\ lock' = NoTask
  /\ storage' = [k \in DOMAIN storage \ {short_id[t]} |-> storage[k]]
  /\ LET original_url == get(storage, short_id[t])
     IN  /\ result' = [result EXCEPT ![t] = [kind |-> "returned", value |-> original_url]]
         /\ IF original_url = None
            THEN Respond(t, HTTP_404_NOT_FOUND, "Short ID not found")
            ELSE Respond(t, HTTP_307_TEMPORARY_REDIRECT, original_url.str)
  /\ UNCHANGED << request, short_id, attempt, returned, call, track, gen >>

\* get under the lock, the release, get_original_url's return, and the
\* 404 or the redirect of redirect_to_url
GetLocked(t) ==
  /\ pc[t] = "get_locked"
  /\ lock = t
  /\ lock' = NoTask
  /\ LET original_url == get(storage, short_id[t])
     IN  /\ result' = [result EXCEPT ![t] = [kind |-> "returned", value |-> original_url]]
         /\ IF original_url = None
            THEN Respond(t, HTTP_404_NOT_FOUND, "Short ID not found")
            ELSE Respond(t, HTTP_307_TEMPORARY_REDIRECT, original_url.str)
  /\ UNCHANGED << storage, request, short_id, attempt, returned, call, track, gen >>

\* the client has the response; the task serves the next request
Complete(t) ==
  /\ pc[t] = "responded"
  /\ pc' = [pc EXCEPT ![t] = "idle"]
  /\ request' = [request EXCEPT ![t] = NoRequest]
  /\ short_id' = [short_id EXCEPT ![t] = ""]
  /\ attempt' = [attempt EXCEPT ![t] = 0]
  /\ result' = [result EXCEPT ![t] = NoResult]
  /\ response' = [response EXCEPT ![t] = NoResponse]
  /\ call' = [call EXCEPT ![t] = NoCall]
  /\ UNCHANGED << storage, lock, returned, track, gen >>

\* the steps of a task that the event loop schedules
Step(t) ==
  \/ LoopHead(t)
  \/ ExistsAcquire(t)
  \/ ExistsLocked(t)
  \/ SaveAcquire(t)
  \/ SaveLocked(t)
  \/ GetAcquire(t)
  \/ GetLocked(t)

Next ==
  \E t \in Tasks :
    \/ \E url \in Urls : HttpPost(t, url)
    \/ \E path \in Paths : HttpGet(t, path)
    \/ Step(t)
    \/ Complete(t)

Spec == Init /\ [][Next]_vars

(***************************************************************************)
(* One client that posts one url after the other, from a larger set of     *)
(* urls.                                                                   *)
(***************************************************************************)
Client == CHOOSE t \in Tasks : \A u \in Tasks : t <= u

NextPost ==
  \/ \E url \in UrlSamples : HttpPost(Client, url)
  \/ LoopHead(Client)
  \/ ExistsAcquire(Client)
  \/ ExistsLocked(Client)
  \/ SaveAcquire(Client)
  \/ SaveLocked(Client)
  \/ Complete(Client)

InitPost == InitService /\ track = FALSE /\ gen = GenIdle

SpecPost == InitPost /\ [][NextPost]_vars

(***************************************************************************)
(* Scheduling.  The event loop runs every ready coroutine (weak fairness   *)
(* of a task's steps) and asyncio.Lock wakes its waiters first come first  *)
(* served, so a waiter that the lock is freed for again and again gets it  *)
(* (strong fairness of the acquisitions).  Requests and the delivery of    *)
(* responses are the clients' and carry no fairness.                       *)
(***************************************************************************)
AcquireStep(t) == ExistsAcquire(t) \/ SaveAcquire(t) \/ GetAcquire(t)

InitFair == InitService /\ track = FALSE /\ gen = GenIdle

FairSpec ==
  /\ InitFair
  /\ [][Next]_vars
  /\ \A t \in Tasks : WF_vars(Step(t)) /\ SF_vars(AcquireStep(t))

\* positions of a task
Waiting(t) == pc[t] \in {"exists", "save", "get"}
Holding(t) == pc[t] \in {"exists_locked", "save_locked", "get_locked"}
InCreate(t) == pc[t] \in {"loop", "exists", "exists_locked", "save", "save_locked"}

(***************************************************************************)
(* generate_short_id on its own: called with a digest and a length, it     *)
(* runs its loop one iteration at a time and returns ''.join(result).      *)
(***************************************************************************)
InitGen ==
  /\ InitService
  /\ track = FALSE
  /\ \E d \in GenDigests, length \in 0..MaxLength :
       gen = [pc |-> "loop", digest |-> d, g |-> GenLocals(d, length)]

GenLoop ==
  /\ gen.pc = "loop"
  /\ GenLoopContinues(gen.g)
  /\ gen' = [gen EXCEPT !.g = GenLoopBody(gen.g)]
  /\ UNCHANGED << storage, lock, pc, request, short_id, attempt, result,
                  response, returned, call, track >>

GenReturn ==
  /\ gen.pc = "loop"
  /\ ~GenLoopContinues(gen.g)
  /\ gen' = [gen EXCEPT !.pc = "returned"]
  /\ UNCHANGED << storage, lock, pc, request, short_id, attempt, result,
                  response, returned, call, track >>

NextGen == GenLoop \/ GenReturn

SpecGen == InitGen /\ [][NextGen]_vars

(***************************************************************************)
(* Properties                                                              *)
(***************************************************************************)
\* a task whose request is a POST that reached the service
IsCreate(t) == request[t].method = "POST" /\ pc[t] # "idle" /\ ValidUrl[request[t].arg]

\* a task whose request is a GET served by redirect_to_url
IsRedirect(t) ==
  /\ request[t].method = "GET"
  /\ Routes[RouteOfGet[request[t].arg]].endpoint = "redirect_to_url"

Responded(t) == pc[t] = "responded"

\* C1 (allocation uniqueness): the identifiers returned by the
\* create_short_url calls that succeeded are pairwise distinct: no short id
\* was returned by two calls.
AllocationUniqueness ==
  \A e1 \in BagToSet(returned) :
    /\ CopiesIn(e1, returned) = 1
    /\ \A e2 \in BagToSet(returned) : e1[1] = e2[1] => e1 = e2

\* C2 (target immutability): once an id is mapped to a target it stays
\* mapped to that target: no step removes a mapping or changes its target.
TargetImmutability ==
  [][\A id \in DOMAIN storage :
        id \in DOMAIN storage' /\ storage'[id] = storage[id]]_vars

\* C3 (round trip): a get_original_url(id) issued after create_short_url(u)
\* returned id yields u, for every such u.
RoundTrip ==
  \A t \in Tasks :
    (IsRedirect(t) /\ Responded(t)) =>
      \A u \in call[t].expected : result[t] = [kind |-> "returned", value |-> Some(u)]

\* C4 (unknown id): get_original_url of an id that is not mapped returns
\* None without raising, and redirect_to_url answers None with 404, not with
\* a redirect.
UnknownIdResolution ==
  \A t \in Tasks :
    (IsRedirect(t) /\ Responded(t)) =>
      /\ result[t].kind = "returned"
      /\ short_id[t] \notin DOMAIN storage => result[t].value = None
      /\ result[t].value = None =>
           /\ response[t].status = HTTP_404_NOT_FOUND
           /\ response[t].status # HTTP_307_TEMPORARY_REDIRECT

\* C4 witness: a GET of an id that is not mapped was answered 404 while the
\* store maps another id
UnknownIdWitness ==
  \E t \in Tasks :
    /\ IsRedirect(t) /\ Responded(t)
    /\ short_id[t] \notin DOMAIN storage
    /\ DOMAIN storage # {}
    /\ response[t].status = HTTP_404_NOT_FOUND

\* C5 (retry ceiling): a create_short_url call generates at most max_retries
\* candidates; when it returns, it returns its last candidate, the only one
\* that exists() did not report occupied; it raises RuntimeError exactly
\* when max_retries candidates were generated and all reported occupied.
RetryCeiling ==
  \A t \in Tasks :
    IsCreate(t) =>
      /\ call[t].generated <= max_retries
      /\ call[t].occupied <= call[t].generated
      /\ result[t].kind = "returned" =>
           /\ result[t].value = Some(short_id[t])
           /\ call[t].generated = call[t].occupied + 1
      /\ result[t].kind = "RuntimeError" =>
           /\ call[t].generated = max_retries
           /\ call[t].occupied = max_retries
      /\ call[t].occupied = max_retries =>
           \/ pc[t] = "loop" /\ ENABLED LoopHead(t) /\ ~HasAttempt(attempt[t])
           \/ result[t].kind = "RuntimeError"

\* C5 witness: one call failed after max_retries occupied candidates, and
\* another returned an id after a collision
RetryCeilingWitness ==
  \E t1, t2 \in Tasks :
    /\ result[t1].kind = "RuntimeError" /\ call[t1].occupied = max_retries
    /\ IsCreate(t2) /\ result[t2].kind = "returned" /\ call[t2].occupied >= 1

\* C6 as claimed (collision handling): a create_short_url call made when the
\* store holds all but one of the possible ids succeeds (unless another call
\* took the free id meanwhile), and fails only once max_retries candidates
\* were all occupied.
CollisionHandlingClaimed ==
  \A t \in Tasks :
    (IsCreate(t) /\ Responded(t) /\ Cardinality(call[t].start_free) = 1) =>
      /\ \/ result[t].kind = "returned"
         \/ call[t].start_free \subseteq DOMAIN storage
      /\ result[t].kind = "RuntimeError" => call[t].occupied = max_retries

\* C6 as amended: a create_short_url call made when the store holds all but
\* one of the possible ids goes on to the next candidate after each
\* collision; when it returns, it returns the id that was free; it fails
\* only once max_retries candidates were generated and all reported occupied.
CollisionHandling ==
  \A t \in Tasks :
    (IsCreate(t) /\ Cardinality(call[t].start_free) = 1) =>
      /\ result[t].kind = "returned" =>
           /\ result[t].value.str \in call[t].start_free
           /\ call[t].generated <= max_retries
      /\ result[t].kind = "RuntimeError" =>
           /\ call[t].occupied = max_retries
           /\ call[t].generated = max_retries
      /\ (pc[t] = "loop" /\ call[t].occupied < max_retries) => HasAttempt(attempt[t])

\* C6 witness: with one id free, a call returned it after a collision
CollisionHandlingWitness ==
  \E t \in Tasks :
    /\ IsCreate(t) /\ Cardinality(call[t].start_free) = 1
    /\ result[t].kind = "returned"
    /\ call[t].occupied >= 1

\* C7 (termination without blocking): under the scheduling of FairSpec, a
\* task that waits for the lock gets it, a task that holds it releases it,
\* every create_short_url call ends returned or with RuntimeError, and in no
\* state is a store operation in progress with no step of it, or of the
\* lock's holder, possible.
Termination ==
  /\ \A t \in Tasks : Waiting(t) ~> Holding(t)
  /\ \A t \in Tasks : Holding(t) ~> ~Holding(t)
  /\ \A t \in Tasks : InCreate(t) ~> (result[t].kind \in {"returned", "RuntimeError"})
  /\ [](\A t \in Tasks :
          (Waiting(t) \/ Holding(t)) =>
             \/ ENABLED Step(t)
             \/ lock \in Tasks /\ ENABLED Step(lock))

\* C7 witness: a task waits for the lock that another task holds
TerminationWitness ==
  \E t1, t2 \in Tasks : Waiting(t1) /\ Holding(t2) /\ lock = t2

\* C8 (length and alphabet): generate_short_id returns a string of exactly
\* `length` characters, each one of the 62 of base62_chars; while its loop
\* runs, `result` holds one character of them per iteration done.
LengthAndAlphabet ==
  /\ Len(base62_chars) = 62
  /\ Len(gen.g.result) = gen.g.i
  /\ gen.g.i <= gen.g.length
  /\ CharsOf(gen.g.result) \subseteq { base62_chars[k] : k \in 1..62 }
  /\ gen.pc = "returned" => Len(gen.g.result) = gen.g.length

\* C8 witness: a call with the largest length and a digest of f's returned
LengthAndAlphabetWitness ==
  /\ gen.pc = "returned"
  /\ gen.g.length = MaxLength
  /\ gen.digest = "ffffffffffffffffffff"
  /\ gen.g.result = generate_short_id(gen.digest, MaxLength)

\* C9 (health check): a GET /health is answered 200 with status "healthy".
HealthCheck ==
  \A t \in Tasks :
    (Responded(t) /\ request[t] = [method |-> "GET", arg |-> "/health"]) =>
      response[t] = [status |-> HTTP_200_OK, body |-> "healthy"]

\* C10 (invalid URLs are rejected before the core): a POST / whose url has a
\* scheme other than http and https, or an empty host, is answered 422
\* without create_short_url being entered; any other url is accepted, and
\* answered 201.
InvalidUrlRejection ==
  \A t \in Tasks :
    request[t].method = "POST" =>
      LET parsed == urlparse(request[t].arg)
          bad == \/ parsed.scheme \notin {"http", "https"}
                 \/ hostname(parsed.netloc) = ""
      IN  /\ bad => /\ Responded(t)
                    /\ response[t].status = HTTP_422_UNPROCESSABLE_ENTITY
                    /\ call[t].generated = 0
          /\ (~bad /\ Responded(t)) => response[t].status = HTTP_201_CREATED


\* C11 (no dedup by target): a create_short_url(u) call made when u is
\* already the target of an id succeeds, returns an id that the store did not
\* hold when the call was made, and afterwards the ids that had the target u
\* and the returned id all resolve to u.
NoDedupByTarget ==
  \A t \in Tasks :
    (IsCreate(t) /\ Responded(t) /\ call[t].start_same # {}) =>
      /\ result[t].kind = "returned"
      /\ result[t].value.str \in call[t].start_free
      /\ \A id \in call[t].start_same \cup {result[t].value.str} :
           get(storage, id) = Some(request[t].arg)

\* C12 (boundary mapping of allocation outcomes): a POST / with a valid url
\* is answered 201 with exactly the id that create_short_url returned when
\* the call returns, and 500 when it raises RuntimeError; a call answered 500
\* has issued no save.
BoundaryMapping ==
  \A t \in Tasks :
    (IsCreate(t) /\ Responded(t)) =>
      /\ result[t].kind \in {"returned", "RuntimeError"}
      /\ result[t].kind = "returned" =>
           /\ result[t].value.some
           /\ response[t] = [status |-> HTTP_201_CREATED, body |-> result[t].value.str]
           /\ result[t].value.str = short_id[t]
      /\ result[t].kind = "RuntimeError" =>
           /\ response[t].status = HTTP_500_INTERNAL_SERVER_ERROR
           /\ call[t].saves = 0
      /\ response[t].status = HTTP_201_CREATED => result[t].kind = "returned"

\* C12 witness: one POST was answered 500 after the raise, with no save of
\* its own, while another was answered 201 with the id its call returned
BoundaryMappingWitness ==
  \E t1, t2 \in Tasks :
    /\ IsCreate(t1) /\ Responded(t1)
    /\ result[t1].kind = "RuntimeError"
    /\ response[t1].status = HTTP_500_INTERNAL_SERVER_ERROR
    /\ call[t1].saves = 0
    /\ IsCreate(t2) /\ Responded(t2)
    /\ result[t2].kind = "returned"
    /\ response[t2] = [status |-> HTTP_201_CREATED, body |-> short_id[t2]]

\* C13 (store mutual exclusion): at most one task holds the store's lock; a
\* task is inside the block of a store operation exactly when it is the
\* lock's holder, so the lock is free whenever no store operation is in
\* progress; every write of the table and every read of it (the membership
\* test of exists, the lookup of get) is a step of the lock's holder, which
\* releases the lock with it.
StoreMutualExclusion ==
  /\ [](/\ lock \in Tasks \cup {NoTask}
        /\ Cardinality({ t \in Tasks : Holding(t) }) <= 1
        /\ \A t \in Tasks : Holding(t) <=> lock = t
        /\ (\A t \in Tasks : ~Holding(t)) => lock = NoTask)
  /\ [][/\ storage' # storage =>
             /\ lock \in Tasks
             /\ pc[lock] = "save_locked" /\ pc'[lock] = "responded"
             /\ lock' = NoTask
        /\ \A t \in Tasks :
             (Holding(t) /\ pc'[t] # pc[t]) => (lock = t /\ lock' = NoTask)
        /\ \A t \in Tasks :
             (~Holding(t) /\ pc'[t] # pc[t]) =>
                /\ storage' = storage
                /\ lock' # lock => (Waiting(t) /\ lock = NoTask /\ lock' = t)]_vars

\* C13 witness: a task is inside the block of save, holding the lock, while
\* another waits for the lock in get and the table is not empty
StoreMutualExclusionWitness ==
  \E t1, t2 \in Tasks :
    /\ pc[t1] = "save_locked" /\ lock = t1
    /\ pc[t2] = "get"
    /\ DOMAIN storage # {}

\* C14 (attempt protocol ordering): within one create_short_url call every
\* attempt generates a candidate and then runs exists on it; save is entered
\* only from the exists of the same attempt that found the same candidate
\* not mapped, and writes that candidate with the call's url; a call issues
\* at most one save, with which it returns; a collision leads to the next
\* attempt, with a newly generated candidate and no save.
AttemptProtocol ==
  /\ [](\A t \in Tasks :
          IsCreate(t) =>
            /\ call[t].saves <= 1
            /\ call[t].saves = 1 <=> result[t].kind = "returned"
            /\ pc[t] = "loop" => call[t].generated = attempt[t]
            /\ pc[t] \in {"exists", "exists_locked", "save", "save_locked"} =>
                 call[t].generated = attempt[t] + 1)
  /\ [][\A t \in Tasks :
          /\ (pc'[t] = "exists" /\ pc[t] # "exists") =>
               /\ pc[t] = "loop" /\ HasAttempt(attempt[t])
               /\ call'[t].generated = call[t].generated + 1
               /\ short_id'[t] \in Ids
               /\ attempt'[t] = attempt[t]
          /\ (pc'[t] = "exists_locked" /\ pc[t] # "exists_locked") =>
               /\ pc[t] = "exists"
               /\ short_id'[t] = short_id[t] /\ attempt'[t] = attempt[t]
          /\ (pc'[t] = "save" /\ pc[t] # "save") =>
               /\ pc[t] = "exists_locked"
               /\ ~exists(storage, short_id[t])
               /\ short_id'[t] = short_id[t] /\ attempt'[t] = attempt[t]
          /\ (pc'[t] = "save_locked" /\ pc[t] # "save_locked") =>
               /\ pc[t] = "save"
               /\ short_id'[t] = short_id[t] /\ attempt'[t] = attempt[t]
          /\ call'[t].saves > call[t].saves =>
               /\ pc[t] = "save_locked" /\ call[t].saves = 0
               /\ storage' = save(storage, short_id[t], request[t].arg)
               /\ result'[t] = [kind |-> "returned", value |-> Some(short_id[t])]
          /\ (pc[t] = "exists_locked" /\ exists(storage, short_id[t])
                /\ pc'[t] # pc[t]) =>
               /\ pc'[t] = "loop"
               /\ attempt'[t] = attempt[t] + 1
               /\ storage' = storage
               /\ call'[t].saves = call[t].saves]_vars

\* C14 witness: a call that had a collision is, in a later attempt, inside
\* save with a candidate that its exists found not mapped
AttemptProtocolWitness ==
  \E t \in Tasks :
    /\ IsCreate(t)
    /\ call[t].occupied >= 1 /\ attempt[t] >= 1
    /\ pc[t] = "save_locked"
    /\ call[t].saves = 0

\* C15 (store growth and frame of a successful allocation): no step removes
\* an id from the table, so the set of mapped ids only grows; the table
\* changes only in the step with which a create_short_url(u) call returns id,
\* and that step sets id to u and leaves every other mapping as it was; no
\* other step of a call changes the table.
StoreGrowthAndFrame ==
  [][/\ DOMAIN storage \subseteq DOMAIN storage'
     /\ storage' # storage =>
          \E t \in Tasks :
            /\ IsCreate(t) /\ pc'[t] # pc[t]
            /\ result[t].kind = "none" /\ result'[t].kind = "returned"
            /\ LET id == result'[t].value.str
                   u == request[t].arg
               IN  /\ DOMAIN storage' = DOMAIN storage \cup {id}
                   /\ storage'[id] = u
                   /\ \A k \in DOMAIN storage \ {id} : storage'[k] = storage[k]
     /\ \A t \in Tasks :
          (pc'[t] # pc[t] /\ result'[t].kind # "returned") => storage' = storage]_vars

\* C15 witness: a call has returned an id that the table maps to its url,
\* beside another id that the table maps to another url
StoreGrowthAndFrameWitness ==
  \E t \in Tasks :
    /\ IsCreate(t) /\ Responded(t) /\ result[t].kind = "returned"
    /\ get(storage, result[t].value.str) = Some(request[t].arg)
    /\ \E k \in DOMAIN storage :
         k # result[t].value.str /\ storage[k] # request[t].arg

\* C16 (failed allocation leaves the store unchanged): the save counter of a
\* call counts the steps of the call that change the table; a
\* create_short_url call that ends with the RuntimeError of exhausted retries
\* has issued no save, and while it runs the table is changed only by steps
\* of other calls.
FailedAllocationFrame ==
  /\ [](\A t \in Tasks :
          (IsCreate(t) /\ result[t].kind = "RuntimeError") =>
             /\ call[t].saves = 0
             /\ call[t].occupied = call[t].generated)
  /\ [][\A t \in Tasks :
          /\ (pc'[t] # pc[t] /\ storage' # storage) =>
               /\ call'[t].saves = call[t].saves + 1
               /\ result'[t].kind = "returned"
          /\ (IsCreate(t) /\ storage' # storage /\ result'[t].kind # "returned") =>
               /\ pc'[t] = pc[t] /\ call'[t] = call[t]
               /\ \E u \in Tasks \ {t} : pc'[u] # pc[u]]_vars

\* C16 witness: a call ended with RuntimeError without a save of its own,
\* while an id that was free when it began has been mapped by another call
FailedAllocationFrameWitness ==
  \E t \in Tasks :
    /\ IsCreate(t) /\ Responded(t)
    /\ result[t].kind = "RuntimeError"
    /\ call[t].saves = 0
    /\ call[t].start_free \cap DOMAIN storage # {}

\* C17 (read operations are pure): the steps of storage.exists and of
\* get_original_url / storage.get (taking the lock, and the block with the
\* membership test or the lookup) leave the table unchanged, for an id that
\* is mapped and for one that is not; exists reports the id mapped exactly
\* when the table maps it while the lock is held, and get yields the id's
\* target, or None when there is none.
ReadPurity ==
  [][\A t \in Tasks :
       /\ (pc[t] \in {"exists", "exists_locked", "get", "get_locked"}
             /\ pc'[t] # pc[t]) => storage' = storage
       /\ (pc[t] = "exists_locked" /\ pc'[t] # pc[t]) =>
            /\ lock = t
            /\ pc'[t] = "loop" <=> short_id[t] \in DOMAIN storage
            /\ pc'[t] = "save" <=> short_id[t] \notin DOMAIN storage
       /\ (pc[t] = "get_locked" /\ pc'[t] # pc[t]) =>
            /\ lock = t
            /\ result'[t].kind = "returned"
            /\ short_id[t] \in DOMAIN storage =>
                 result'[t].value = Some(storage[short_id[t]])
            /\ short_id[t] \notin DOMAIN storage => result'[t].value = None]_vars

\* C17 witness: a GET of a mapped id was answered with its target, which the
\* table still holds, and another task is in the block of exists with a
\* candidate that is mapped
ReadPurityWitness ==
  \E t1, t2 \in Tasks :
    /\ IsRedirect(t1) /\ Responded(t1)
    /\ short_id[t1] \in DOMAIN storage
    /\ result[t1].value = Some(storage[short_id[t1]])
    /\ pc[t2] = "exists_locked"
    /\ short_id[t2] \in DOMAIN storage

\* the index in base62_chars (0-based) of one character of the alphabet
IndexOf(c) == (CHOOSE k \in 1..62 : base62_chars[k] = c) - 1

\* whether an integer kept as base-16 digits is zero
IsZero(digits) == \A i \in 1..Len(digits) : digits[i] = 0

\* digits * 62 + d over the base-16 digits, with the carry out of the most
\* significant digit
MulAdd62(digits, d) ==
  LET n == Len(digits)
      carry[i \in 1..(n + 1)] ==
        IF i = n + 1 THEN d ELSE (digits[i] * 62 + carry[i + 1]) \div 16
  IN  [digits |-> [i \in 1..n |-> (digits[i] * 62 + carry[i + 1]) % 16],
       overflow |-> carry[1]]

\* q * 62^Len(r) + the sum of IndexOf(r[j+1]) * 62^j, as base-16 digits of
\* the width of q; << >> when it does not fit that width
RECURSIVE ValueOf(_, _)
ValueOf(q, r) ==
  IF Len(r) = 0 THEN q
  ELSE LET ma == MulAdd62(q, IndexOf(CharAt(r, Len(r))))
       IN  IF ma.overflow # 0 \/ q = << >> THEN << >>
           ELSE ValueOf(ma.digits, Slice(r, 1, Len(r) - 1))

\* an integer kept as base-16 digits that has at most 7 significant digits,
\* as a number
FitsInt(digits) == \A i \in 1..(Len(digits) - 7) : digits[i] = 0
RECURSIVE IntOf(_)
IntOf(digits) ==
  IF Len(digits) = 0 THEN 0
  ELSE IntOf(SubSeq(digits, 1, Len(digits) - 1)) * 16 + digits[Len(digits)]

\* C18 (base-62 digit extraction): with n the integer value of the first 16
\* hex characters of the digest, after i iterations hash_int is n div 62^i
\* and the character at position j (0-based) of result is
\* base62_chars[(n div 62^j) mod 62] for every j < i, the least significant
\* digit first: n = hash_int * 62^i + the sum of the digits' values times
\* 62^j, which fixes them; for an n that fits the checker's integers the
\* characters are also compared with (n div 62^j) mod 62 computed directly;
\* once hash_int is 0, past the last non-zero digit of n, every character
\* appended is base62_chars[0].
DigitExtraction ==
  /\ [](gen.pc # "idle" =>
          LET n == IntOfHex(Prefix16(gen.digest))
          IN  /\ Len(n) = 16
              /\ ValueOf(gen.g.hash_int, gen.g.result) = n
              /\ FitsInt(n) =>
                   \A j \in 0..(Len(gen.g.result) - 1) :
                     j <= 5 =>
                       CharAt(gen.g.result, j + 1) =
                         base62_chars[((IntOf(n) \div (62 ^ j)) % 62) + 1])
  /\ [][(gen.g.i' = gen.g.i + 1) =>
          /\ Slice(gen.g.result', 1, Len(gen.g.result)) = gen.g.result
          /\ Len(gen.g.result') = Len(gen.g.result) + 1
          /\ IsZero(gen.g.hash_int) =>
               /\ gen.g.result' = gen.g.result \o base62_chars[1]
               /\ IsZero(gen.g.hash_int')]_vars

\* C18 witness: for a digest whose 64-bit prefix has ten base-62 digits, the
\* call with the largest length returned the ten digits, least significant
\* first, followed by the symbol of index 0
DigitExtractionWitness ==
  /\ gen.pc = "returned"
  /\ gen.digest = "0123456789abcdef0123"
  /\ gen.g.length = MaxLength
  /\ gen.g.result = "9luBFnPEdgaa"
  /\ IsZero(gen.g.hash_int)

\* C19 (provenance of store entries): every mapping id -> target of the
\* table was written by a create_short_url call whose argument was that
\* target and whose generated candidate was that id: the table holds no
\* target that no call was given and no id that generate_short_id did not
\* produce, and each mapping that a step writes is the candidate and the url
\* of the call that takes the step.
Provenance ==
  /\ [](\A id \in DOMAIN storage :
          /\ id \in Ids
          /\ storage[id] \in { u \in Urls : ValidUrl[u] }
          /\ << id, storage[id] >> \in BagToSet(returned))
  /\ [][\A id \in DOMAIN storage' :
          (id \notin DOMAIN storage \/ storage'[id] # storage[id]) =>
             \E t \in Tasks :
               /\ IsCreate(t) /\ pc'[t] # pc[t]
               /\ call[t].generated >= 1
               /\ short_id[t] = id
               /\ request[t] = [method |-> "POST", arg |-> storage'[id]]]_vars

\* C19 witness: the table holds two ids with different targets, each written
\* by a call that was given that target
ProvenanceWitness ==
  \E id1, id2 \in DOMAIN storage :
    /\ storage[id1] # storage[id2]
    /\ << id1, storage[id1] >> \in BagToSet(returned)
    /\ << id2, storage[id2] >> \in BagToSet(returned)

=============================================================================
